---- MODULE Spec2Model ----
(***************************************************************************)
(* Handshake initiation of device/noise-protocol.go: the Handshake record, *)
(* Handshake.Clear, Device.CreateMessageInitiation and                     *)
(* Device.ConsumeMessageInitiation, over a symbolic model of the           *)
(* cryptographic primitives.  Byte strings are sequences of naturals: a    *)
(* primitive applied to arguments is the primitive's tag followed by the   *)
(* length-prefixed arguments, so distinct applications are distinct values *)
(* and the all-zero array is <<0>>.                                        *)
(***************************************************************************)
EXTENDS Integers, Sequences, FiniteSets, TLC

\* ------------------------------------------------------------------ bounds
\* index values are 0..MaxIndex (uint32 in the code)
MaxIndex == 1
\* ephemeral private keys the random source can produce are 1..MaxEph
MaxEph == 1
\* timestamps are 0..MaxTime; 0 is the all-zero TAI64N value
MaxTime == 1
\* message type tags are 0..MaxTypeTag (rand.Intn(100) in the code)
MaxTypeTag == 1

Indices == 0..MaxIndex
EphKeys == 1..MaxEph
TypeTags == 0..MaxTypeTag

\* ------------------------------------------------- symbolic byte strings
TagPub == 1
TagPriv == 2
TagDH == 3
TagSum == 4
TagHash == 5
TagKDF1 == 6
TagKDF2 == 7
TagSeal == 8
TagFlip == 9

Zero == <<0>>

isZero(val) == val = Zero

\* NoiseConstruction and WGIdentifier, the two seed strings
NoiseConstruction == <<50>>
WGIdentifier == <<51>>

ZeroNonce == Zero

\* a private key with secret scalar k, and its public key
PrivateKey(k) == <<TagPriv, k>>
publicKey(sk) == IF isZero(sk) THEN <<TagPub, 0>> ELSE <<TagPub, sk[2]>>

\* the static public key with scalar 0 stands for a low-order point: every
\* shared secret with it is all-zero
LowOrder == <<TagPub, 0>>

\* sharedSecret: Curve25519 is commutative; an all-zero result is an error
sharedSecret(sk, pk) ==
    LET a == IF isZero(sk) THEN 0 ELSE sk[2]
        b == pk[2]
        lo == IF a < b THEN a ELSE b
        hi == IF a < b THEN b ELSE a
    IN  IF isZero(pk) \/ pk = LowOrder \/ a = 0
        THEN [ss |-> Zero, err |-> TRUE]
        ELSE [ss |-> <<TagDH, lo, hi>>, err |-> FALSE]

Sum256(data) == <<TagSum>> \o data

\* mixHash(dst, h, data): dst = BLAKE2s(h || data)
mixHash(h, data) == <<TagHash, Len(h)>> \o h \o data

KDF1(c, data) == <<TagKDF1, Len(c)>> \o c \o data

\* KDF2 yields the next chain key and one output key
KDF2(c, data) ==
    [t0 |-> <<TagKDF2, 0, Len(c)>> \o c \o data,
     t1 |-> <<TagKDF2, 1, Len(c)>> \o c \o data,
     err |-> FALSE]

mixKey(c, data) == KDF1(c, data)

\* aead.Seal(dst, nonce, plaintext, additionalData) under key
Seal(key, nonce, plaintext, ad) ==
    <<TagSeal, Len(key), Len(plaintext)>> \o key \o nonce \o plaintext \o ad

InitialChainKey == Sum256(NoiseConstruction)
InitialHash == mixHash(InitialChainKey, WGIdentifier)

\* sizes in bytes of the array handed to chacha20poly1305.New and of a key
TimestampSize == 12
TagSize == 16
KeySize == 32

\* chacha20poly1305.New(key) fails unless the key has KeySize bytes
chacha20poly1305New(keyLen) == [err |-> keyLen # KeySize]


\* ------------------------------------------------------- configuration
\* Entity e owns the static private key PrivateKey(e).  The device is
\* entity Local; the other entities are remote parties that run the same
\* program.
Local == 1

\* the peers configured on the device
Peers == {2, 3}

\* A peer added while the device had no private key has an all-zero
\* precomputed static-static secret: the device is configured with no such
\* peer, or with peer 3 being one.
UnkeyedChoices == {{}, {3}}

StaticPrivate(e) == PrivateKey(e)
StaticPublic(e) == publicKey(StaticPrivate(e))

PrecomputedStaticStatic(p, unkeyed) ==
    IF p \in unkeyed THEN Zero
    ELSE sharedSecret(StaticPrivate(Local), StaticPublic(p)).ss

\* handshakeState
handshakeZeroed == "handshakeZeroed"
handshakeInitiationCreated == "handshakeInitiationCreated"
handshakeInitiationConsumed == "handshakeInitiationConsumed"
handshakeResponseCreated == "handshakeResponseCreated"
handshakeResponseConsumed == "handshakeResponseConsumed"

\* the zero value of type Handshake
ZeroHandshake ==
    [state |-> handshakeZeroed, hash |-> Zero, chainKey |-> Zero,
     presharedKey |-> Zero, localEphemeral |-> Zero, localIndex |-> 0,
     remoteIndex |-> 0, remoteStatic |-> Zero, remoteEphemeral |-> Zero,
     precomputedStaticStatic |-> Zero, lastTimestamp |-> Zero]

\* the handshake of a peer as configured, before any handshake attempt
ConfiguredHandshake(p, unkeyed) ==
    [ZeroHandshake EXCEPT !.remoteStatic = StaticPublic(p),
                          !.precomputedStaticStatic = PrecomputedStaticStatic(p, unkeyed)]

\* MessageInitiation (MAC1 and MAC2 are not touched by the two operations)
ZeroMessage ==
    [Type |-> 0, Sender |-> 0, Ephemeral |-> Zero, Static |-> Zero,
     Timestamp |-> Zero]

\* ------------------------------------------------------------ index table
\* An entry is empty, bound to the handshake of a configured peer, or bound
\* to a peer created by NewPeer (whose handshake the entry carries).
NoEntry == [kind |-> "none", peer |-> 0, hs |-> ZeroHandshake]

EmptyTable == [i \in Indices |-> NoEntry]

Delete(table, index) == [table EXCEPT ![index] = NoEntry]

FreeIndices(table) == {i \in Indices : table[i].kind = "none"}

\* NewIndexForHandshake with the random draw index; the draw is retried on
\* collision, so only a free index is ever stored
NewIndexForHandshake(table, peer, index) ==
    [table EXCEPT ![index] = [kind |-> "handshake", peer |-> peer, hs |-> ZeroHandshake]]

\* NewPeer(index): a new peer, registered under index
NewPeer(table, index) ==
    [table EXCEPT ![index] = [kind |-> "peer", peer |-> 0, hs |-> ZeroHandshake]]

\* ------------------------------------------------------------ call frames
\* The working state of a call of CreateMessageInitiation: the peer's
\* handshake, the index table, the message under construction, the current
\* AEAD key and the error (if any) it is about to return.
Working(h, table) ==
    [hs |-> h, table |-> table, msg |-> ZeroMessage, key |-> Zero, err |-> "none"]

\* The working state of a call of ConsumeMessageInitiation: the index
\* table, the local hash, chainKey and timestamp variables, the peer handle
\* obtained from NewPeer (the index whose entry holds the peer, -1 before
\* there is one), whether the call has returned, and the handle it returned
\* (-1 for nil).
Consuming(table) ==
    [table |-> table, hash |-> Zero, chainKey |-> Zero, peerPK |-> Zero,
     timestamp |-> Zero, peer |-> -1, returned |-> FALSE, ret |-> -1,
     err |-> "none"]

\* the goroutines that run calls concurrently
Threads == {1, 2}

\* a goroutine that runs no call: where it is, the peer argument of a call
\* of CreateMessageInitiation (0 if none), the msg argument of a call of
\* ConsumeMessageInitiation, and the locals of either call
Idle ==
    [pc |-> "idle", peer |-> 0, arg |-> ZeroMessage,
     w |-> Working(ZeroHandshake, EmptyTable), c |-> Consuming(EmptyTable)]

\* ------------------------------------------------------------------ state
VARIABLES
    handshake,       \* handshake[p]: peer.handshake of the configured peer p
    indexTable,      \* device.indexTable
    msgType,         \* MessageInitiationType in this process
    last,            \* the last call: operation, arguments and what it returned
    thread,          \* thread[th]: the call goroutine th is running
    staticIdentity,  \* the goroutines holding device.staticIdentity's read lock
    mutex            \* mutex[p]: the goroutine holding handshake[p].mutex, or 0

vars == <<handshake, indexTable, msgType, last, thread, staticIdentity, mutex>>

\* what a call run from start to end without interleaving leaves alone
goroutines == <<thread, staticIdentity, mutex>>

NoCall ==
    [op |-> "none", peer |-> 0, msg |-> ZeroMessage,
     handle |-> -1, ok |-> FALSE, err |-> "none"]

Init ==
    /\ \E unkeyed \in UnkeyedChoices :
           handshake = [p \in Peers |-> ConfiguredHandshake(p, unkeyed)]
    /\ indexTable = EmptyTable
    /\ msgType \in TypeTags
    /\ last = NoCall
    /\ thread = [th \in Threads |-> Idle]
    /\ staticIdentity = {}
    /\ mutex = [p \in Peers |-> 0]

\* ------------------------------------------------------------------ Clear
\* Clear with the write to hash left out
ClearKeepingHash(h) ==
    [h EXCEPT !.localEphemeral = Zero,
              !.remoteEphemeral = Zero,
              !.chainKey = Zero,
              !.localIndex = 0,
              !.state = handshakeZeroed]

Clear(h) ==
    [h EXCEPT !.localEphemeral = Zero,
              !.remoteEphemeral = Zero,
              !.chainKey = Zero,
              !.hash = Zero,
              !.localIndex = 0,
              !.state = handshakeZeroed]

ClearCall(p) ==
    /\ handshake' = [handshake EXCEPT ![p] = Clear(@)]
    /\ last' = [NoCall EXCEPT !.op = "Clear", !.peer = p, !.ok = TRUE]
    /\ UNCHANGED <<indexTable, msgType, goroutines>>


\* ------------------------------------------------ CreateMessageInitiation
\* a TAI64N timestamp
Timestamp(t) == <<t>>

\* newPrivateKey: a fresh private key, or the zero key and an error
NewPrivateKeys == {[sk |-> PrivateKey(k), err |-> FALSE] : k \in EphKeys}
                  \cup {[sk |-> Zero, err |-> TRUE]}

\* "create ephemeral key" with the write of InitialHash left out
CreateEphemeralKeepingHash(w, new) ==
    LET h == [w.hs EXCEPT !.chainKey = InitialChainKey,
                          !.localEphemeral = new.sk]
    IN  [w EXCEPT !.hs = h, !.err = IF new.err THEN "newPrivateKey" ELSE "none"]

\* "create ephemeral key"
CreateEphemeral(w, new) ==
    LET h == [w.hs EXCEPT !.hash = InitialHash,
                          !.chainKey = InitialChainKey,
                          !.localEphemeral = new.sk]
    IN  [w EXCEPT !.hs = h, !.err = IF new.err THEN "newPrivateKey" ELSE "none"]

\* mixing of the remote static and the ephemeral key; "encrypt static key"
EncryptStatic(w, type, localPublic) ==
    IF w.err # "none" THEN w
    ELSE
    LET h1 == mixHash(w.hs.hash, w.hs.remoteStatic)
        eph == publicKey(w.hs.localEphemeral)
        m == [w.msg EXCEPT !.Type = type, !.Ephemeral = eph]
        c1 == mixKey(w.hs.chainKey, eph)
        h2 == mixHash(h1, eph)
        dh == sharedSecret(w.hs.localEphemeral, w.hs.remoteStatic)
        k == KDF2(c1, dh.ss)
        static == Seal(k.t1, ZeroNonce, localPublic, h2)
    IN  IF dh.err
        THEN [w EXCEPT !.hs.hash = h2, !.hs.chainKey = c1, !.msg = m,
                       !.err = "sharedSecret"]
        ELSE [w EXCEPT !.hs.hash = mixHash(h2, static), !.hs.chainKey = k.t0,
                       !.msg = [m EXCEPT !.Static = static], !.key = k.t1]

\* "encrypt timestamp" with the isZero test left out
EncryptTimestampUnchecked(w, now) ==
    IF w.err # "none" THEN w
    ELSE
    LET k == KDF2(w.hs.chainKey, w.hs.precomputedStaticStatic)
    IN  [w EXCEPT !.hs.chainKey = k.t0, !.key = k.t1,
                  !.msg.Timestamp = Seal(k.t1, ZeroNonce, now, w.hs.hash)]

\* "encrypt timestamp"
EncryptTimestamp(w, now) ==
    IF w.err # "none" THEN w
    ELSE IF isZero(w.hs.precomputedStaticStatic)
    THEN [w EXCEPT !.err = "errInvalidPublicKey"]
    ELSE
    LET k == KDF2(w.hs.chainKey, w.hs.precomputedStaticStatic)
    IN  [w EXCEPT !.hs.chainKey = k.t0, !.key = k.t1,
                  !.msg.Timestamp = Seal(k.t1, ZeroNonce, now, w.hs.hash)]

\* what NewIndexForHandshake can do on a table: store a free index, or fail
\* (no random bits, or no free index)
Allocations(table) ==
    {[index |-> i, err |-> FALSE] : i \in FreeIndices(table)}
    \cup {[index |-> 0, err |-> TRUE]}

\* "assign index"
AssignIndex(w, peer, alloc) ==
    IF w.err # "none" THEN w
    ELSE
    LET deleted == Delete(w.table, w.hs.localIndex)
    IN  IF alloc.err
        THEN [w EXCEPT !.table = deleted, !.err = "NewIndexForHandshake"]
        ELSE [w EXCEPT !.table = NewIndexForHandshake(deleted, peer, alloc.index),
                       !.msg.Sender = alloc.index,
                       !.hs.localIndex = alloc.index]

\* the last two statements before the message is returned
Commit(w) ==
    IF w.err # "none" THEN w
    ELSE [w EXCEPT !.hs.hash = mixHash(w.hs.hash, w.msg.Timestamp),
                   !.hs.state = handshakeInitiationCreated]

\* the whole of CreateMessageInitiation
CreateMessageInitiation(h, table, peer, type, localPublic, new, now, alloc) ==
    Commit(AssignIndex(EncryptTimestamp(EncryptStatic(
        CreateEphemeral(Working(h, table), new), type, localPublic), now),
        peer, alloc))

CreateCall(p) ==
    \E new \in NewPrivateKeys, t \in 1..MaxTime :
    \E alloc \in Allocations(Delete(indexTable, handshake[p].localIndex)) :
        LET w == CreateMessageInitiation(handshake[p], indexTable, p,
                     msgType, StaticPublic(Local), new, Timestamp(t), alloc)
        IN  /\ handshake' = [handshake EXCEPT ![p] = w.hs]
            /\ indexTable' = w.table
            /\ last' = [NoCall EXCEPT !.op = "Create", !.peer = p,
                           !.ok = (w.err = "none"), !.err = w.err,
                           !.msg = IF w.err = "none" THEN w.msg ELSE ZeroMessage]
            /\ UNCHANGED <<msgType, goroutines>>


\* ----------------------------------------------- ConsumeMessageInitiation
\* the type check comparing against the wrong tag, so that every tag passes
CheckTypeAgainstItself(c, msg, type) ==
    IF msg.Type # msg.Type
    THEN [c EXCEPT !.returned = TRUE, !.err = "type"]
    ELSE c

\* the type check before the lock
CheckType(c, msg, type) ==
    IF msg.Type # type
    THEN [c EXCEPT !.returned = TRUE, !.err = "type"]
    ELSE c

\* the local transcript and "decrypt static key"
DeriveStatic(c, msg, localPublic) ==
    IF c.returned THEN c
    ELSE
    LET h1 == mixHash(InitialHash, localPublic)
        h2 == mixHash(h1, msg.Ephemeral)
        c1 == mixKey(InitialChainKey, msg.Ephemeral)
        k == KDF2(c1, msg.Ephemeral)
    IN  IF k.err
        THEN [c EXCEPT !.hash = h2, !.chainKey = k.t0, !.peerPK = k.t1,
                       !.returned = TRUE, !.err = "KDF2"]
        ELSE [c EXCEPT !.hash = h2, !.chainKey = k.t0, !.peerPK = k.t1]

\* Delete(msg.Sender), NewPeer(msg.Sender) and the two writes to the peer
ResolvePeer(c, msg) ==
    IF c.returned THEN c
    ELSE
    LET table == NewPeer(Delete(c.table, msg.Sender), msg.Sender)
        h == table[msg.Sender].hs
    IN  [c EXCEPT !.peer = msg.Sender,
                  !.table = [table EXCEPT ![msg.Sender].hs =
                      [h EXCEPT !.remoteEphemeral = msg.Ephemeral,
                                !.hash = mixHash(h.hash, msg.Ephemeral)]]]

\* "parse timestamp" with the error test inverted
ParseTimestampInverted(c, msg) ==
    IF c.returned THEN c
    ELSE IF ~chacha20poly1305New(TimestampSize + TagSize).err
    THEN [c EXCEPT !.returned = TRUE, !.err = "chacha20poly1305.New"]
    ELSE c

\* "parse timestamp": msg.Timestamp is an array of TimestampSize + TagSize
\* bytes, whatever it holds
ParseTimestamp(c, msg) ==
    IF c.returned THEN c
    ELSE IF chacha20poly1305New(TimestampSize + TagSize).err
    THEN [c EXCEPT !.returned = TRUE, !.err = "chacha20poly1305.New"]
    ELSE c

\* the three writes before the peer is returned
Accept(c, msg) ==
    IF c.returned THEN c
    ELSE
    LET h == c.table[c.peer].hs
    IN  [c EXCEPT !.table[c.peer].hs =
                      [h EXCEPT !.lastTimestamp = c.timestamp,
                                !.hash = mixHash(h.hash, msg.Timestamp),
                                !.state = handshakeInitiationConsumed],
                  !.returned = TRUE, !.ret = c.peer]

\* the whole of ConsumeMessageInitiation
ConsumeMessageInitiation(table, msg, type, localPublic) ==
    Accept(ParseTimestamp(ResolvePeer(DeriveStatic(
        CheckType(Consuming(table), msg, type), msg, localPublic), msg), msg), msg)

\* ------------------------------------------------------ inbound messages
\* An initiation as the remote party e builds it for the device:
\* CreateMessageInitiation run by e, from its handshake for the device as
\* configured.
RemoteHandshake(e) ==
    [ZeroHandshake EXCEPT !.remoteStatic = StaticPublic(Local),
         !.precomputedStaticStatic =
             sharedSecret(StaticPrivate(e), StaticPublic(Local)).ss]

Initiation(e, k, t, index, type) ==
    CreateMessageInitiation(RemoteHandshake(e), EmptyTable, Local, type,
        StaticPublic(e), [sk |-> PrivateKey(k), err |-> FALSE], Timestamp(t),
        [index |-> index, err |-> FALSE])

\* a ciphertext with a bit flipped
Flip(ciphertext) == <<TagFlip>> \o ciphertext

Tamperings == {"none", "static", "timestamp"}

Tamper(msg, how) ==
    CASE how = "static" -> [msg EXCEPT !.Static = Flip(@)]
      [] how = "timestamp" -> [msg EXCEPT !.Timestamp = Flip(@)]
      [] OTHER -> msg

\* the parties that send initiations to the device: peer 2, and entity 5,
\* which is no peer of the device
Senders == {2, 5}

\* An arriving message is described by who built it, with which ephemeral
\* key, timestamp, sender index and type tag, and how it was tampered with
\* on the way.  It departs in at most one respect from a fresh, untouched
\* initiation of peer 2 that carries the device's own type tag.
Departures(a, type) ==
    (IF a.e # 2 THEN 1 ELSE 0) + (IF a.t = 0 THEN 1 ELSE 0)
    + (IF a.how # "none" THEN 1 ELSE 0) + (IF a.ty # type THEN 1 ELSE 0)

AllArrivals ==
    [e : Senders, k : EphKeys, t : 0..MaxTime, i : Indices,
     ty : TypeTags, how : Tamperings]

Arrivals(type) == {a \in AllArrivals : Departures(a, type) <= 1}

Arrived(a) == Tamper(Initiation(a.e, a.k, a.t, a.i, a.ty).msg, a.how)

\* the messages that may arrive at the device
Inbound(type) == {Arrived(a) : a \in Arrivals(type)}

ConsumeCall ==
    \E msg \in Inbound(msgType) :
        LET c == ConsumeMessageInitiation(indexTable, msg, msgType, StaticPublic(Local))
        IN  /\ indexTable' = c.table
            /\ last' = [NoCall EXCEPT !.op = "Consume", !.msg = msg,
                           !.ok = (c.ret # -1), !.handle = c.ret, !.err = c.err]
            /\ UNCHANGED <<handshake, msgType, goroutines>>

\* ---------------------------------------------------------- specification
Next ==
    \/ \E p \in Peers : CreateCall(p)
    \/ ConsumeCall
    \/ \E p \in Peers : ClearCall(p)

Spec == Init /\ [][Next]_vars

\* the device when it only initiates: no message arrives
NextInitiator ==
    \/ \E p \in Peers : CreateCall(p)
    \/ \E p \in Peers : ClearCall(p)

SpecInitiator == Init /\ [][NextInitiator]_vars

\* the device when it only responds: it creates no initiation of its own
NextResponder ==
    \/ ConsumeCall
    \/ \E p \in Peers : ClearCall(p)

SpecResponder == Init /\ [][NextResponder]_vars


\* ------------------------------------------------------ concurrent calls
\* Each goroutine runs one call, a statement group at a time.  A group that
\* touches the handshake or the index table reads them as they are when it
\* runs; only the locals of the call are kept in the goroutine.

\* sync.Mutex.Unlock with the release left out
UnlockKeepingHold(m, p) == m

\* sync.Mutex.Lock and Unlock on handshake[p].mutex
Lock(m, p, th) == [m EXCEPT ![p] = th]
Unlock(m, p) == [m EXCEPT ![p] = 0]

\* the locals of a call of CreateMessageInitiation, and the call resumed on
\* the handshake and the index table as they are now
Locals(w) == [w EXCEPT !.hs = ZeroHandshake, !.table = EmptyTable]
Resume(w, p) == [w EXCEPT !.hs = handshake[p], !.table = indexTable]

\* goroutine th has brought its call of CreateMessageInitiation to next;
\* an error takes the call to its deferred unlocks
CreateStep(th, next, to) ==
    /\ handshake' = [handshake EXCEPT ![thread[th].peer] = next.hs]
    /\ indexTable' = next.table
    /\ thread' = [thread EXCEPT ![th].w = Locals(next),
                     ![th].pc = IF next.err # "none" THEN "Unlock" ELSE to]
    /\ UNCHANGED <<msgType, last, staticIdentity, mutex>>

\* the call is made, and takes the read lock of the static identity
BeginCreate(th) ==
    /\ thread[th].pc = "idle"
    /\ \E p \in Peers :
           thread' = [thread EXCEPT ![th].pc = "Lock", ![th].peer = p]
    /\ staticIdentity' = staticIdentity \cup {th}
    /\ UNCHANGED <<handshake, indexTable, msgType, last, mutex>>

\* handshake.mutex.Lock() waits until the mutex is free
LockHandshake(th) ==
    /\ thread[th].pc = "Lock"
    /\ mutex[thread[th].peer] = 0
    /\ mutex' = Lock(mutex, thread[th].peer, th)
    /\ thread' = [thread EXCEPT ![th].pc = "create ephemeral key"]
    /\ UNCHANGED <<handshake, indexTable, msgType, last, staticIdentity>>

\* from "create ephemeral key" to "encrypt timestamp"
CreateKeys(th) ==
    /\ thread[th].pc = "create ephemeral key"
    /\ \E new \in NewPrivateKeys, t \in 1..MaxTime :
           CreateStep(th,
               EncryptTimestamp(EncryptStatic(
                   CreateEphemeral(Resume(thread[th].w, thread[th].peer), new),
                   msgType, StaticPublic(Local)), Timestamp(t)),
               "assign index")

CreateIndex(th) ==
    /\ thread[th].pc = "assign index"
    /\ \E alloc \in Allocations(Delete(indexTable, handshake[thread[th].peer].localIndex)) :
           CreateStep(th,
               AssignIndex(Resume(thread[th].w, thread[th].peer), thread[th].peer, alloc),
               "commit")

CreateCommit(th) ==
    /\ thread[th].pc = "commit"
    /\ CreateStep(th, Commit(Resume(thread[th].w, thread[th].peer)), "Unlock")

\* the deferred handshake.mutex.Unlock()
UnlockHandshake(th) ==
    /\ thread[th].pc = "Unlock"
    /\ mutex' = Unlock(mutex, thread[th].peer)
    /\ thread' = [thread EXCEPT ![th].pc = "RUnlock"]
    /\ UNCHANGED <<handshake, indexTable, msgType, last, staticIdentity>>

\* the messages in flight while calls run concurrently: untouched
\* initiations of peer 2, with any sender index and any type tag
InFlight == {Arrived(a) : a \in {b \in AllArrivals :
                 b.e = 2 /\ b.k = 1 /\ b.t = 1 /\ b.how = "none"}}

\* the call is made; the type check comes before any lock
BeginConsume(th) ==
    /\ thread[th].pc = "idle"
    /\ \E msg \in InFlight :
           LET c == CheckType(Consuming(EmptyTable), msg, msgType)
           IN  thread' = [thread EXCEPT ![th].arg = msg, ![th].c = c,
                   ![th].pc = IF c.returned THEN "done" ELSE "RLock"]
    /\ UNCHANGED <<handshake, indexTable, msgType, last, staticIdentity, mutex>>

\* device.staticIdentity.RLock() and the local transcript
ConsumeDerive(th) ==
    /\ thread[th].pc = "RLock"
    /\ staticIdentity' = staticIdentity \cup {th}
    /\ LET c == DeriveStatic(thread[th].c, thread[th].arg, StaticPublic(Local))
       IN  thread' = [thread EXCEPT ![th].c = c,
               ![th].pc = IF c.returned THEN "RUnlock" ELSE "NewPeer"]
    /\ UNCHANGED <<handshake, indexTable, msgType, last, mutex>>

\* Delete, NewPeer and the two writes to the peer's handshake
ConsumeResolve(th) ==
    /\ thread[th].pc = "NewPeer"
    /\ LET c == ResolvePeer([thread[th].c EXCEPT !.table = indexTable], thread[th].arg)
       IN  /\ indexTable' = c.table
           /\ thread' = [thread EXCEPT ![th].c = [c EXCEPT !.table = EmptyTable],
                            ![th].pc = "parse timestamp"]
    /\ UNCHANGED <<handshake, msgType, last, staticIdentity, mutex>>

\* "parse timestamp" and what follows it
ConsumeFinish(th) ==
    /\ thread[th].pc = "parse timestamp"
    /\ LET c == Accept(ParseTimestamp([thread[th].c EXCEPT !.table = indexTable],
                           thread[th].arg), thread[th].arg)
       IN  /\ indexTable' = c.table
           /\ thread' = [thread EXCEPT ![th].c = [c EXCEPT !.table = EmptyTable],
                            ![th].pc = "RUnlock"]
    /\ UNCHANGED <<handshake, msgType, last, staticIdentity, mutex>>

\* the deferred device.staticIdentity.RUnlock() of either call, and the return
Return(th) ==
    /\ thread[th].pc = "RUnlock"
    /\ staticIdentity' = staticIdentity \ {th}
    /\ thread' = [thread EXCEPT ![th].pc = "done"]
    /\ UNCHANGED <<handshake, indexTable, msgType, last, mutex>>

\* a call that was made runs on
Run(th) ==
    \/ LockHandshake(th)
    \/ CreateKeys(th)
    \/ CreateIndex(th)
    \/ CreateCommit(th)
    \/ UnlockHandshake(th)
    \/ ConsumeDerive(th)
    \/ ConsumeResolve(th)
    \/ ConsumeFinish(th)
    \/ Return(th)

NextConcurrent ==
    \E th \in Threads :
        \/ BeginCreate(th)
        \/ BeginConsume(th)
        \/ Run(th)

\* the Go scheduler lets every goroutine that can run do so
SpecConcurrent ==
    Init /\ [][NextConcurrent]_vars /\ \A th \in Threads : WF_vars(Run(th))


\* ----------------------------------------------------------------- claims
\* the arrivals a message can be (one at most: the construction is injective)
ArrivalsOf(msg) == {a \in AllArrivals : Arrived(a) = msg}

\* the entries of the table that are registered
Registered(table) == {i \in Indices : table[i].kind # "none"}

\* C1: an initiation of a configured peer whose timestamp is not after that
\* peer's lastTimestamp is rejected: no peer is returned, and the peer's
\* handshake and the index table are left as they were.
C1_ReplayRejected ==
    [][\A a \in AllArrivals :
        (/\ last'.op = "Consume"
         /\ last'.msg = Arrived(a)
         /\ a.how = "none"
         /\ a.e \in Peers
         /\ Timestamp(a.t)[1] <= handshake[a.e].lastTimestamp[1])
        => (/\ ~last'.ok
            /\ handshake'[a.e] = handshake[a.e]
            /\ indexTable' = indexTable)]_vars

\* C2: the initiation a configured peer with a non-zero static-static secret
\* creates for the device is accepted by the device, and the returned peer's
\* hash and chainKey are then the initiator's.
C2_TranscriptEquality ==
    [][\A a \in AllArrivals :
        (/\ last'.op = "Consume"
         /\ last'.msg = Arrived(a)
         /\ a.how = "none"
         /\ a.e \in Peers
         /\ a.t >= 1
         /\ ~isZero(handshake[a.e].precomputedStaticStatic))
        => (/\ last'.ok
            /\ LET theirs == Initiation(a.e, a.k, a.t, a.i, a.ty).hs
                   ours == indexTable'[last'.handle].hs
               IN  /\ ours.hash = theirs.hash
                   /\ ours.chainKey = theirs.chainKey)]_vars

\* C3: an initiation whose encrypted Static or encrypted Timestamp field was
\* altered is never answered with a peer.
C3_TamperRejected ==
    (/\ last.op = "Consume"
     /\ \E a \in ArrivalsOf(last.msg) : a.how # "none")
    => ~last.ok

\* a tampered initiation that carried the device's type tag was consumed
C3_Witness ==
    /\ last.op = "Consume"
    /\ last.msg.Type = msgType
    /\ \E a \in ArrivalsOf(last.msg) : a.how # "none" /\ a.e \in Peers
    /\ ~last.ok

\* C4: a call of ConsumeMessageInitiation that returns no peer leaves the
\* index table and every peer's handshake as they were.
C4_RejectionChangesNothing ==
    [][(last'.op = "Consume" /\ ~last'.ok)
        => (indexTable' = indexTable /\ handshake' = handshake)]_vars

\* index is the localIndex of the handshake of p, in state InitiationCreated
Live(p, index) ==
    /\ handshake[p].state = handshakeInitiationCreated
    /\ handshake[p].localIndex = index

\* C5: no two handshakes in state InitiationCreated hold the same localIndex,
\* and the index a successful CreateMessageInitiation was handed by the index
\* table is not the localIndex of another handshake in state
\* InitiationCreated.
C5_IndexUnique ==
    /\ \A p, q \in Peers :
          (p # q /\ handshake[p].state = handshakeInitiationCreated
                 /\ handshake[q].state = handshakeInitiationCreated)
          => handshake[p].localIndex # handshake[q].localIndex
    /\ (last.op = "Create" /\ last.ok)
          => \A q \in Peers \ {last.peer} : ~Live(q, last.msg.Sender)

\* C6: CreateMessageInitiation for a peer whose precomputedStaticStatic is
\* all-zero returns an error and no message, leaves the index table and
\* localIndex as they were and does not set the state to InitiationCreated.
C6_MisconfiguredPeer ==
    [][(/\ last'.op = "Create"
        /\ isZero(handshake[last'.peer].precomputedStaticStatic))
        => (/\ ~last'.ok
            /\ last'.err # "none"
            /\ last'.msg = ZeroMessage
            /\ indexTable' = indexTable
            /\ handshake'[last'.peer].localIndex = handshake[last'.peer].localIndex
            /\ handshake'[last'.peer].state # handshakeInitiationCreated)]_vars

\* the zero test stopped a call while another handshake held an index
C6_Witness ==
    /\ last.op = "Create"
    /\ last.err = "errInvalidPublicKey"
    /\ isZero(handshake[last.peer].precomputedStaticStatic)
    /\ Registered(indexTable) # {}

\* C7: a message whose Type is not the initiation tag is turned away by the
\* type check: no peer is returned, and neither the index table nor any
\* handshake is modified.
C7_TypeTagRejected ==
    [][(last'.op = "Consume" /\ last'.msg.Type # msgType)
        => (/\ ~last'.ok
            /\ last'.err = "type"
            /\ indexTable' = indexTable
            /\ handshake' = handshake)]_vars

\* a message with another tag arrived whose Sender is a registered index
C7_Witness ==
    /\ last.op = "Consume"
    /\ last.msg.Type # msgType
    /\ last.err = "type"
    /\ last.msg.Sender \in Registered(indexTable)

\* the entries of the table that hold a peer made by NewPeer
PeerEntries(table) == {i \in Indices : table[i].kind = "peer"}

\* C9: for an initiation built by a party that is no peer of the device,
\* ConsumeMessageInitiation returns no peer and creates none.
C9_UnknownPeer ==
    [][\A a \in AllArrivals :
        (/\ last'.op = "Consume"
         /\ last'.msg = Arrived(a)
         /\ a.e \notin Peers)
        => (/\ ~last'.ok
            /\ PeerEntries(indexTable') \subseteq PeerEntries(indexTable)
            /\ \A i \in PeerEntries(indexTable') : indexTable'[i] = indexTable[i])]_vars

\* C10: Clear leaves localEphemeral, remoteEphemeral, chainKey and hash
\* all-zero, localIndex 0 and the state Zeroed, changes no other field, and
\* clearing the result once more changes nothing.
C10_ClearIdempotent ==
    [][last'.op = "Clear"
        => LET old == handshake[last'.peer]
               new == handshake'[last'.peer]
           IN  /\ isZero(new.localEphemeral)
               /\ isZero(new.remoteEphemeral)
               /\ isZero(new.chainKey)
               /\ isZero(new.hash)
               /\ new.localIndex = 0
               /\ new.state = handshakeZeroed
               /\ new.presharedKey = old.presharedKey
               /\ new.remoteStatic = old.remoteStatic
               /\ new.precomputedStaticStatic = old.precomputedStaticStatic
               /\ new.remoteIndex = old.remoteIndex
               /\ new.lastTimestamp = old.lastTimestamp
               /\ Clear(new) = new]_vars

\* Clear acted on a handshake that had created an initiation: its index is
\* still registered, and the handshake is cleared
C10_Witness ==
    /\ last.op = "Clear"
    /\ \E i \in Registered(indexTable) :
          indexTable[i].kind = "handshake" /\ indexTable[i].peer = last.peer
    /\ handshake[last.peer].state = handshakeZeroed
    /\ isZero(handshake[last.peer].hash)

\* C11: the initiation tag is the same in every process, so the untouched
\* initiation a configured peer's process creates is never turned away by
\* the type check of the device.
C11_TagsAgree ==
    [][\A a \in AllArrivals :
        (/\ last'.op = "Consume"
         /\ last'.msg = Arrived(a)
         /\ a.how = "none"
         /\ a.e \in Peers
         /\ a.t >= 1)
        => last'.err # "type"]_vars

\* a goroutine holds the mutex of a handshake
HoldsHandshakeMutex(th) == \E p \in Peers : mutex[p] = th

\* the step wrote to the handshake of a configured peer, or to that of a
\* peer registered in the index table
HandshakeWritten ==
    \/ handshake' # handshake
    \/ \E i \in Indices :
          /\ indexTable'[i].kind = "peer"
          /\ indexTable'[i].hs # ZeroHandshake
          /\ indexTable'[i] # indexTable[i]

\* C12: a goroutine that writes to a peer's handshake in the course of
\* CreateMessageInitiation or ConsumeMessageInitiation holds the mutex of a
\* handshake while it does so.
C12_WritesUnderMutex ==
    [][\A th \in Threads :
        (thread'[th] # thread[th] /\ HandshakeWritten)
        => HoldsHandshakeMutex(th)]_vars

\* C13: a call of CreateMessageInitiation that returns an error leaves the
\* peer's handshake exactly as it was before the call, or cleared as Clear
\* leaves it.
C13_ErrorLeavesNoMix ==
    [][(last'.op = "Create" /\ ~last'.ok)
        => LET old == handshake[last'.peer]
               new == handshake'[last'.peer]
           IN  new = old \/ new = Clear(old)]_vars

\* the indices registered in the table for the handshake of peer p
EntriesOf(table, p) ==
    {i \in Indices : table[i].kind = "handshake" /\ table[i].peer = p}

\* C14: the index table never holds more than one entry bound to the same
\* handshake, and when CreateMessageInitiation has returned a message, the
\* message's Sender is the handshake's localIndex and is the one index
\* registered for that handshake (the index it held before is not).
C14_OneLiveIndex ==
    /\ \A p \in Peers : Cardinality(EntriesOf(indexTable, p)) <= 1
    /\ (last.op = "Create" /\ last.ok)
          => /\ last.msg.Sender = handshake[last.peer].localIndex
             /\ EntriesOf(indexTable, last.peer) = {last.msg.Sender}

\* the call of CreateMessageInitiation on handshake h up to and including
\* "encrypt timestamp", for each ephemeral key and time it can draw
UpToTimestamp(h, type) ==
    {EncryptTimestamp(EncryptStatic(CreateEphemeral(Working(h, EmptyTable), new),
         type, StaticPublic(Local)), Timestamp(t)) :
         new \in NewPrivateKeys, t \in 1..MaxTime}

\* C15: when CreateMessageInitiation fails to allocate the sender index,
\* the handshake's hash does not include the encrypted timestamp and its
\* state is not InitiationCreated.
C15_TimestampAfterIndex ==
    [][(last'.op = "Create" /\ last'.err = "NewIndexForHandshake")
        => LET new == handshake'[last'.peer]
           IN  /\ \A w \in UpToTimestamp(handshake[last'.peer], msgType) :
                     w.err = "none" => new.hash # mixHash(w.hs.hash, w.msg.Timestamp)
               /\ new.state # handshakeInitiationCreated]_vars

\* the handshake is in the Zeroed condition
Zeroed(h) ==
    /\ h.state = handshakeZeroed
    /\ isZero(h.hash)
    /\ isZero(h.chainKey)
    /\ isZero(h.localEphemeral)
    /\ isZero(h.remoteEphemeral)

\* C16: a call that takes a handshake into state InitiationCreated found it
\* in the Zeroed condition; in particular no handshake goes from
\* InitiationCreated to InitiationCreated without being cleared in between.
C16_StartsFromZeroed ==
    [][\A p \in Peers :
        (/\ handshake'[p] # handshake[p]
         /\ handshake'[p].state = handshakeInitiationCreated)
        => Zeroed(handshake[p])]_vars

\* the handshake with what earlier attempts left in it taken away
Pristine(h) ==
    [h EXCEPT !.state = handshakeZeroed,
              !.hash = Zero,
              !.chainKey = Zero,
              !.localEphemeral = Zero,
              !.remoteEphemeral = Zero,
              !.localIndex = 0]

\* the calls of CreateMessageInitiation on the pristine handshake, for each
\* ephemeral key and time, that are given the sender index index
FromPristine(h, p, index) ==
    {CreateMessageInitiation(Pristine(h), EmptyTable, p, msgType,
         StaticPublic(Local), new, Timestamp(t), [index |-> index, err |-> FALSE]) :
         new \in NewPrivateKeys, t \in 1..MaxTime}

\* goroutine th has created an initiation and still holds the mutex
Created(th) ==
    /\ thread[th].pc = "Unlock"
    /\ thread[th].w.err = "none"

\* C17: when CreateMessageInitiation has created a message, the message
\* and the handshake's hash and chainKey are those the call makes, with
\* the same ephemeral key and timestamp, on the handshake with nothing
\* left in it by earlier attempts: the earlier hash, chainKey, state and
\* ephemeral keys have no part in them.
C17_TranscriptFromInputsOnly ==
    \A th \in Threads :
        Created(th)
        => \E f \in FromPristine(handshake[thread[th].peer], thread[th].peer,
                                 thread[th].w.msg.Sender) :
               /\ f.err = "none"
               /\ f.msg = thread[th].w.msg
               /\ f.hs.hash = handshake[thread[th].peer].hash
               /\ f.hs.chainKey = handshake[thread[th].peer].chainKey

\* a goroutine has created an initiation for a peer whose handshake was
\* left in state InitiationCreated by the call of the other goroutine
C17_Witness ==
    \E th, other \in Threads :
        /\ Created(th)
        /\ other # th
        /\ thread[other].pc = "done"
        /\ thread[other].peer = thread[th].peer
        /\ thread[other].w.err = "none"

\* C18: a call of CreateMessageInitiation or ConsumeMessageInitiation
\* leaves in the index table the registered localIndex of every handshake
\* in state InitiationCreated other than the one the call operates on.
C18_OthersEntriesKept ==
    [][\A q \in Peers, i \in Indices :
        (/\ last'.op \in {"Create", "Consume"}
         /\ (last'.op = "Create" => last'.peer # q)
         /\ Live(q, i)
         /\ i \in EntriesOf(indexTable, q))
        => i \in EntriesOf(indexTable', q)]_vars

\* goroutine th holds no lock
HoldsNothing(th) == th \notin staticIdentity /\ ~HoldsHandshakeMutex(th)

\* C20: a goroutine holds a handshake mutex only while it holds the read
\* lock of the static identity (the read lock is taken first and released
\* last), and every call that was made returns, on whichever path, holding
\* no lock.
C20_LockDiscipline ==
    /\ [](\A th \in Threads : HoldsHandshakeMutex(th) => th \in staticIdentity)
    /\ \A th \in Threads :
          (thread[th].pc # "idle") ~> (thread[th].pc = "done" /\ HoldsNothing(th))

\* both goroutines called CreateMessageInitiation for the same peer, one of
\* the calls returned an error, and both have returned with every lock free
C20_Witness ==
    \E th, other \in Threads :
        /\ other # th
        /\ thread[th].pc = "done"
        /\ thread[other].pc = "done"
        /\ thread[th].peer \in Peers
        /\ thread[other].peer = thread[th].peer
        /\ thread[th].w.err # "none"
        /\ staticIdentity = {}
        /\ \A p \in Peers : mutex[p] = 0

====
